---- MODULE Spec2Model ----
(***************************************************************************)
(* A model of scripts/generate_rss.py: the Markdown-to-feed pipeline.      *)
(*                                                                         *)
(* Text is a sequence of one-character strings.  A compiled-in constant    *)
(* whose inner characters no operation inspects (RSS_LINK, the style       *)
(* sheet) is a single multi-character element with a recorded Width.       *)
(***************************************************************************)
EXTENDS Integers, Sequences, FiniteSets, TLC

VARIABLES
    fs,        \* the source tree in os.walk order: <<[dir, name, doc, bad]>>
    now,       \* the UTC clock: <<year, month, day, hour>>
    pc,        \* position of generate_rss_and_html
    idx,       \* index in fs of the file the loop is at
    cur,       \* what md_to_html returned for the current file
    channel,   \* the in-memory <channel> element: a sequence of children
    htmlDir,   \* asset/html on disk: a set of [name, content, src]
    saves,     \* the save_html_file calls of this run: <<[name, src]>>
    rssFile,   \* rss.xml on disk (NoFile when absent)
    run,       \* which run of the generator this is
    prevRss,   \* rss.xml as it was when this run started
    iconExists, \* whether the icon asset is on disk
    fnIn,      \* argument of the pure function under check
    fnOut      \* its result

vars == <<fs, now, pc, idx, cur, channel, htmlDir, saves, rssFile, run, prevRss,
          iconExists, fnIn, fnOut>>

runVars == <<fs, now, pc, idx, cur, channel, htmlDir, saves, rssFile, run, prevRss,
             iconExists>>

-----------------------------------------------------------------------------
(* Python str helpers *)

NL == "\n"

IsSpace(c) == c \in {" ", "\n", "\t"}

Min(S) == CHOOSE m \in S : \A k \in S : m <= k

Max(S) == CHOOSE m \in S : \A k \in S : m >= k

\* s[i:i+len(p)] == p
MatchesAt(s, i, p) ==
    /\ i >= 1
    /\ i + Len(p) - 1 <= Len(s)
    /\ \A k \in 1..Len(p) : s[i + k - 1] = p[k]

StartsWith(s, p) == MatchesAt(s, 1, p)

EndsWith(s, p) == Len(p) <= Len(s) /\ MatchesAt(s, Len(s) - Len(p) + 1, p)

\* s[i:] with i a 1-based first index
From(s, i) == IF i > Len(s) THEN <<>> ELSE SubSeq(s, i, Len(s))

\* str.strip()
Strip(s) ==
    LET keep == {k \in 1..Len(s) : ~IsSpace(s[k])}
    IN  IF keep = {} THEN <<>> ELSE SubSeq(s, Min(keep), Max(keep))

\* str.lstrip("/")
LStripSlash(s) ==
    LET keep == {k \in 1..Len(s) : s[k] # "/"}
    IN  IF keep = {} THEN <<>> ELSE From(s, Min(keep))

RECURSIVE ReplaceSpace(_)
\* str.replace(' ', '%20')
ReplaceSpace(s) ==
    IF s = <<>> THEN <<>>
    ELSE (IF Head(s) = " " THEN <<"%", "2", "0">> ELSE <<Head(s)>>)
         \o ReplaceSpace(Tail(s))

RECURSIVE JoinWith(_, _)
\* sep.join(parts)
JoinWith(sep, parts) ==
    IF parts = <<>> THEN <<>>
    ELSE IF Len(parts) = 1 THEN parts[1]
    ELSE parts[1] \o sep \o JoinWith(sep, Tail(parts))

-----------------------------------------------------------------------------
(* parse_md_metadata *)

Quotes == {"\"", "'"}

\* the five-character default title literal of line 89, kept as one element
DefaultTitle == <<"(unnamed post)">>

Digit(n) == CASE n = 0 -> "0" [] n = 1 -> "1" [] n = 2 -> "2" [] n = 3 -> "3"
              [] n = 4 -> "4" [] n = 5 -> "5" [] n = 6 -> "6" [] n = 7 -> "7"
              [] n = 8 -> "8" [] n = 9 -> "9"

\* datetime.utcnow().strftime("%Y-%m-%d")
StrfYmd(t) ==
    <<Digit(t[1] \div 1000), Digit((t[1] \div 100) % 10), Digit((t[1] \div 10) % 10),
      Digit(t[1] % 10), "-", Digit(t[2] \div 10), Digit(t[2] % 10), "-",
      Digit(t[3] \div 10), Digit(t[3] % 10)>>

\* meta_pattern = ^---\s*\n(.*?)\n---\s*\n with DOTALL, anchored by match():
\* p is the newline ending the opening marker line (greedy \s*), q the newline
\* before the closing marker (lazy group), r the newline ending it (greedy \s*).
MarkerEnds(s, i) ==
    {r \in i..Len(s) : s[r] = NL /\ \A k \in i..(r - 1) : IsSpace(s[k])}

MetaCloses(s, p) ==
    {q \in (p + 1)..Len(s) :
        /\ s[q] = NL
        /\ MatchesAt(s, q + 1, <<"-", "-", "-">>)
        /\ MarkerEnds(s, q + 4) # {}}

MetaOpens(s) ==
    IF StartsWith(s, <<"-", "-", "-">>)
    THEN {p \in MarkerEnds(s, 4) : MetaCloses(s, p) # {}}
    ELSE {}

MetaMatch(s) ==
    LET p == Max(MetaOpens(s))
        q == Min(MetaCloses(s, p))
        r == Max(MarkerEnds(s, q + 4))
    IN  [group1 |-> SubSeq(s, p + 1, q - 1), end |-> r]

\* re.search(key + r':\s*["\'](.*?)["\']', m): the leftmost position where the
\* key text, a colon, optional white space and a quote are followed on the same
\* line by another quote; the group is the text up to the first such quote.
QuoteAfter(m, i) ==
    LET rest == {k \in i..Len(m) : ~IsSpace(m[k])}
    IN  IF rest # {} /\ m[Min(rest)] \in Quotes THEN Min(rest) ELSE 0

GroupEnds(m, j) ==
    {e \in (j + 1)..Len(m) : m[e] \in Quotes /\ \A k \in (j + 1)..(e - 1) : m[k] # NL}

KeyHits(key, m) ==
    {i \in 1..Len(m) :
        /\ MatchesAt(m, i, key \o <<":">>)
        /\ QuoteAfter(m, i + Len(key) + 1) # 0
        /\ GroupEnds(m, QuoteAfter(m, i + Len(key) + 1)) # {}}

SearchQuoted(key, m) ==
    LET i == Min(KeyHits(key, m))
        j == QuoteAfter(m, i + Len(key) + 1)
    IN  SubSeq(m, j + 1, Min(GroupEnds(m, j)) - 1)

KeyTitle == <<"t", "i", "t", "l", "e">>

KeyDate == <<"d", "a", "t", "e">>

KeyDescription == <<"d", "e", "s", "c", "r", "i", "p", "t", "i", "o", "n">>

MetaField(key, m, default) ==
    IF KeyHits(key, m) # {} THEN SearchQuoted(key, m) ELSE default

parse_md_metadata(md_content, t) ==
    LET defaults == [title |-> DefaultTitle, date |-> StrfYmd(t), description |-> <<>>]
    IN  IF MetaOpens(md_content) = {}
        THEN [metadata |-> defaults, clean_content |-> md_content]
        ELSE LET mt == MetaMatch(md_content)
                 m == mt.group1
             IN  [metadata |->
                     [title |-> MetaField(KeyTitle, m, defaults.title),
                      date |-> MetaField(KeyDate, m, defaults.date),
                      description |-> MetaField(KeyDescription, m, defaults.description)],
                  clean_content |-> Strip(From(md_content, mt.end + 1))]

-----------------------------------------------------------------------------
(* convert_date_to_rfc822 *)

Digits == {"0", "1", "2", "3", "4", "5", "6", "7", "8", "9"}

DigitVal(c) == CHOOSE n \in 0..9 : Digit(n) = c

AllDigits(s) == \A k \in 1..Len(s) : s[k] \in Digits

RECURSIVE Num(_)
Num(s) == IF s = <<>> THEN 0 ELSE 10 * Num(SubSeq(s, 1, Len(s) - 1)) + DigitVal(s[Len(s)])

IsLeap(y) == (y % 4 = 0 /\ y % 100 # 0) \/ y % 400 = 0

DaysIn(y, m) ==
    IF m = 2 THEN (IF IsLeap(y) THEN 29 ELSE 28)
    ELSE IF m \in {4, 6, 9, 11} THEN 30 ELSE 31

\* the directive %m of strptime: 1[0-2]|0[1-9]|[1-9]
MonthToken(s) == Len(s) \in {1, 2} /\ AllDigits(s) /\ Num(s) \in 1..12

\* the directive %d of strptime: 3[01]|[12]\d|0[1-9]|[1-9]| [1-9]
DayToken(s) ==
    \/ Len(s) \in {1, 2} /\ AllDigits(s) /\ Num(s) \in 1..31
    \/ Len(s) = 2 /\ s[1] = " " /\ s[2] \in Digits \ {"0"}

DayNum(s) == IF s[1] = " " THEN DigitVal(s[2]) ELSE Num(s)

\* datetime.strptime(date_str, "%Y-%m-%d") succeeds: four year digits, a dash,
\* a month token, a dash, a day token and nothing else; the day exists.
StrptimeOk(s) ==
    /\ Len(s) >= 8
    /\ AllDigits(SubSeq(s, 1, 4))
    /\ Num(SubSeq(s, 1, 4)) >= 1
    /\ s[5] = "-"
    /\ \E d \in 7..8 :
          /\ s[d] = "-"
          /\ MonthToken(SubSeq(s, 6, d - 1))
          /\ DayToken(From(s, d + 1))
          /\ DayNum(From(s, d + 1))
                <= DaysIn(Num(SubSeq(s, 1, 4)), Num(SubSeq(s, 6, d - 1)))

Strptime(s) ==
    LET d == CHOOSE d \in 7..8 : s[d] = "-" /\ MonthToken(SubSeq(s, 6, d - 1))
    IN  <<Num(SubSeq(s, 1, 4)), Num(SubSeq(s, 6, d - 1)), DayNum(From(s, d + 1))>>

\* %a: the day of the week (Zeller's congruence, 0 = Saturday)
WeekdayName(y, m, d) ==
    LET mm == IF m < 3 THEN m + 12 ELSE m
        yy == IF m < 3 THEN y - 1 ELSE y
        h  == (d + ((13 * (mm + 1)) \div 5) + (yy % 100) + ((yy % 100) \div 4)
                 + ((yy \div 100) \div 4) + 5 * (yy \div 100)) % 7
    IN  <<"Sat", "Sun", "Mon", "Tue", "Wed", "Thu", "Fri">>[h + 1]

\* %b
MonthName(m) ==
    <<"Jan", "Feb", "Mar", "Apr", "May", "Jun", "Jul", "Aug", "Sep", "Oct", "Nov",
      "Dec">>[m]

TwoDigits(n) == <<Digit(n \div 10), Digit(n % 10)>>

FourDigits(n) ==
    <<Digit(n \div 1000), Digit((n \div 100) % 10), Digit((n \div 10) % 10), Digit(n % 10)>>

\* strftime("%a, %d %b %Y ") followed by the clock part and " GMT"
Rfc822(y, m, d, clock) ==
    <<WeekdayName(y, m, d), ",", " ">> \o TwoDigits(d) \o <<" ", MonthName(m), " ">>
    \o FourDigits(y) \o <<" ">> \o clock \o <<" ", "GMT">>

\* datetime.utcnow().strftime("%a, %d %b %Y %H:%M:%S GMT"); the model's clock
\* runs in whole hours
StrfNow(t) == Rfc822(t[1], t[2], t[3], TwoDigits(t[4]) \o <<":", "0", "0", ":", "0", "0">>)

\* a mutant: the date of the post is ignored
convert_date_always_now(date_str, t) == StrfNow(t)

convert_date_to_rfc822(date_str, t) ==
    IF StrptimeOk(date_str)
    THEN LET dt == Strptime(date_str)
         IN  Rfc822(dt[1], dt[2], dt[3], <<"0", "0", ":", "0", "0", ":", "0", "0">>)
    ELSE StrfNow(t)

-----------------------------------------------------------------------------
(* os.path *)

RECURSIVE Split(_, _)
\* str.split(sep) for a one-character separator
Split(s, sep) ==
    LET hits == {k \in 1..Len(s) : s[k] = sep}
    IN  IF hits = {} THEN <<s>>
        ELSE <<SubSeq(s, 1, Min(hits) - 1)>> \o Split(From(s, Min(hits) + 1), sep)

\* os.path.dirname
Dirname(p) ==
    LET slashes == {k \in 1..Len(p) : p[k] = "/"}
        head == IF slashes = {} THEN <<>> ELSE SubSeq(p, 1, Max(slashes))
        keep == {k \in 1..Len(head) : head[k] # "/"}
    IN  IF keep = {} THEN head ELSE SubSeq(head, 1, Max(keep))

\* os.path.basename
Basename(p) ==
    LET slashes == {k \in 1..Len(p) : p[k] = "/"}
    IN  IF slashes = {} THEN p ELSE From(p, Max(slashes) + 1)

\* os.path.join(a, b)
PathJoin(a, b) ==
    IF StartsWith(b, <<"/">>) THEN b
    ELSE IF a = <<>> \/ EndsWith(a, <<"/">>) THEN a \o b
    ELSE a \o <<"/">> \o b

\* os.path.splitext(name)[0]: cut at the last dot, unless only dots precede it
SplitextRoot(name) ==
    LET dots == {k \in 1..Len(name) : name[k] = "."}
    IN  IF dots # {} /\ \E k \in 1..(Max(dots) - 1) : name[k] # "."
        THEN SubSeq(name, 1, Max(dots) - 1)
        ELSE name

DotDot == <<".", ".">>

RECURSIVE NormAbs(_, _)
\* os.path.normpath of an absolute path, as the list of its components:
\* empty and "." components are dropped, ".." pops one (and is dropped at "/")
NormAbs(stack, comps) ==
    IF comps = <<>> THEN stack
    ELSE LET c == Head(comps)
         IN  IF c = <<>> \/ c = <<".">> THEN NormAbs(stack, Tail(comps))
             ELSE IF c = DotDot
                  THEN NormAbs(IF stack = <<>> THEN stack
                               ELSE SubSeq(stack, 1, Len(stack) - 1), Tail(comps))
                  ELSE NormAbs(Append(stack, c), Tail(comps))

\* os.path.abspath(p) with the working directory cwd (a component list)
Abspath(p, cwd) ==
    IF StartsWith(p, <<"/">>) THEN NormAbs(<<>>, Split(p, "/"))
    ELSE NormAbs(cwd, Split(p, "/"))

CommonLen(a, b) ==
    Max({n \in 0..Min({Len(a), Len(b)}) : \A k \in 1..n : a[k] = b[k]})

\* os.path.relpath(path, start) on absolute component lists
Relpath(path, start) ==
    LET i == CommonLen(start, path)
        rel == [k \in 1..(Len(start) - i) |-> DotDot] \o From(path, i + 1)
    IN  IF rel = <<>> THEN <<".">> ELSE JoinWith(<<"/">>, rel)

-----------------------------------------------------------------------------
(* replace_md_image_paths *)

RSS_LINK == <<"https://github.com/itcoffee66/githubweekly">>

RawMain == <<"/", "r", "a", "w", "/", "m", "a", "i", "n", "/">>

Http == <<"h", "t", "t", "p", ":", "/", "/">>

Https == <<"h", "t", "t", "p", "s", ":", "/", "/">>

NoNewline(s, i, j) == \A k \in i..j : s[k] # NL

\* (?:\s+".*?")?\) after a path ending at b: the index of the closing
\* parenthesis, or 0
RefClose(s, b) ==
    LET rest == {k \in (b + 1)..Len(s) : ~IsSpace(s[k])}
        o == IF rest = {} THEN 0 ELSE Min(rest)
        cs == {c \in (o + 1)..(Len(s) - 1) :
                  s[c] = "\"" /\ s[c + 1] = ")" /\ NoNewline(s, o + 1, c - 1)}
    IN  IF b + 1 <= Len(s) /\ s[b + 1] = ")" THEN b + 1
        ELSE IF o > b + 1 /\ s[o] = "\"" /\ cs # {} THEN Min(cs) + 1
        ELSE 0

\* ends b of the path group (.*?) that opens after the "(" at a + 1
PathEnds(s, a) ==
    {b \in (a + 1)..Len(s) : NoNewline(s, a + 2, b) /\ RefClose(s, b) # 0}

\* ends a of the alt group: the "]" of "](" after "![" at i
AltEnds(s, i) ==
    {a \in (i + 2)..(Len(s) - 1) :
        /\ s[a] = "]" /\ s[a + 1] = "("
        /\ NoNewline(s, i + 2, a - 1)
        /\ PathEnds(s, a) # {}}

ImageHits(s, from) ==
    {i \in from..Len(s) : MatchesAt(s, i, <<"!", "[">>) /\ AltEnds(s, i) # {}}

ImageMatch(s, i) ==
    LET a == Min(AltEnds(s, i))
        b == Min(PathEnds(s, a))
    IN  [group1 |-> SubSeq(s, i + 2, a - 1), group2 |-> SubSeq(s, a + 2, b),
         end |-> RefClose(s, b)]

\* a mutant: the image path is resolved against the repository root
_replace_image_match_from_root(m, md_file_path, cwd) ==
    <<"!", "[">> \o m.group1 \o <<"]", "(">>
    \o (IF StartsWith(Strip(m.group2), Http) \/ StartsWith(Strip(m.group2), Https)
        THEN Strip(m.group2)
        ELSE RSS_LINK \o RawMain
             \o ReplaceSpace(Relpath(Abspath(Strip(m.group2), cwd), cwd)))
    \o <<")">>

_replace_image_match(m, md_file_path, cwd) ==
    LET alt_text == m.group1
        img_path == Strip(m.group2)
        md_dir == Dirname(md_file_path)
        abs_img_path == Abspath(PathJoin(md_dir, img_path), cwd)
        repo_root == Abspath(<<".", "/">>, cwd)
        rel_img_path == Relpath(abs_img_path, repo_root)
        img_raw_link == RSS_LINK \o RawMain \o ReplaceSpace(rel_img_path)
    IN  IF StartsWith(img_path, Http) \/ StartsWith(img_path, Https)
        THEN <<"!", "[">> \o alt_text \o <<"]", "(">> \o img_path \o <<")">>
        ELSE <<"!", "[">> \o alt_text \o <<"]", "(">> \o img_raw_link \o <<")">>

RECURSIVE ImageSub(_, _, _, _)
\* image_pattern.sub(_replace_image_match, md_content), scanning from `from`
ImageSub(s, from, md_file_path, cwd) ==
    IF ImageHits(s, from) = {} THEN From(s, from)
    ELSE LET i == Min(ImageHits(s, from))
             m == ImageMatch(s, i)
         IN  SubSeq(s, from, i - 1) \o _replace_image_match(m, md_file_path, cwd)
             \o ImageSub(s, m.end + 1, md_file_path, cwd)

replace_md_image_paths(md_content, md_file_path, cwd) ==
    ImageSub(md_content, 1, md_file_path, cwd)

-----------------------------------------------------------------------------
(* md_to_html, save_html_file, the feed *)

MD_DIR == <<"p", "o", "s", "t", "/">>

HTML_OUTPUT_DIR == <<"a", "s", "s", "e", "t", "/", "h", "t", "m", "l">>

RSS_ICON_PATH == <<"/", "a", "s", "s", "e", "t", "/", "i", "t", "-", "c", "o", "f", "f", "e",
                   "e", "-", "c", "i", "r", "c", "l", "e", ".", "p", "n", "g">>

RSS_TITLE == <<"RSS_TITLE">>

RSS_DESCRIPTION == <<"RSS_DESCRIPTION">>

RSS_LANGUAGE == <<"z", "h", "-", "C", "N">>

\* the style sheet, 845 characters, as the part the first 200 characters of the
\* feed HTML reach into and the rest
HTML_STYLE == <<"HTML_STYLE[:153]", "HTML_STYLE[153:]">>

DivOpen == <<"<div style='max-width: 800px; margin: 0 auto;'>">>

DivClose == <<"</div>">>

\* len() of one element of a text
Width(a) ==
    CASE a = DivOpen[1] -> 47
      [] a = HTML_STYLE[1] -> 153
      [] a = HTML_STYLE[2] -> 692
      [] a = DivClose[1] -> 6
      [] a = RSS_LINK[1] -> 43
      [] OTHER -> 1

ExcerptLen == 200

RECURSIVE Prefix(_, _)
\* s[:n]; the elements are cut so that n = ExcerptLen falls between two of them
Prefix(s, n) ==
    IF s = <<>> \/ Width(Head(s)) > n THEN <<>>
    ELSE <<Head(s)>> \o Prefix(Tail(s), n - Width(Head(s)))

\* markdown.markdown(text, ...): the external renderer, an injective image of
\* its input
Markdown(text) == <<"<md>">> \o text \o <<"</md>">>

\* the working directory of the run: the repository root
RunCwd == << <<"r">> >>

StandaloneHtml(metadata, html_content) ==
    <<"<!DOCTYPE html><html><head><title>">> \o metadata.title
    \o <<"</title><meta name=description content=">>
    \o (IF metadata.description # <<>> THEN metadata.description ELSE metadata.title)
    \o HTML_STYLE \o <<"</head><body><h1>">> \o metadata.title
    \o <<"</h1><div class=post-meta>">> \o metadata.date \o DivClose
    \o html_content \o <<"</body></html>">>

HtmlSuffix == <<".", "h", "t", "m", "l">>

md_to_html(file_path, doc, t) ==
    LET md_content == Strip(doc)
        parsed == parse_md_metadata(md_content, t)
        clean_md_content ==
            replace_md_image_paths(parsed.clean_content, file_path, RunCwd)
        html_content == Markdown(clean_md_content)
    IN  [done |-> TRUE,
         rss_html |-> DivOpen \o HTML_STYLE \o html_content \o DivClose,
         standalone_html |-> StandaloneHtml(parsed.metadata, html_content),
         metadata |-> parsed.metadata,
         html_file_name |-> SplitextRoot(Basename(file_path)) \o HtmlSuffix]

\* save_html_file: open(os.path.join(HTML_OUTPUT_DIR, html_file_name), "w")
\* replaces whatever file has that name
save_html_file(dir, standalone_html, html_file_name) ==
    {f \in dir : f.name # html_file_name}
    \cup {[name |-> html_file_name, content |-> standalone_html]}

El(tag, text) == [tag |-> tag, text |-> text, children |-> <<>>]

Node(tag, children) == [tag |-> tag, text |-> <<>>, children |-> children]

ChannelHead(t, icon) ==
    <<El("title", RSS_TITLE), El("link", RSS_LINK), El("description", RSS_DESCRIPTION),
      El("language", RSS_LANGUAGE), El("pubDate", StrfNow(t))>>
    \o (IF icon
        THEN <<Node("image",
                    <<El("url", RSS_LINK \o RawMain
                                  \o ReplaceSpace(LStripSlash(RSS_ICON_PATH))),
                      El("title", RSS_TITLE), El("link", RSS_LINK),
                      El("width", <<"1", "4", "4">>), El("height", <<"1", "4", "4">>)>>)>>
        ELSE <<>>)

ItemLink(html_file_name) ==
    RSS_LINK \o RawMain \o HTML_OUTPUT_DIR \o <<"/">> \o ReplaceSpace(html_file_name)

Ellipsis == <<".", ".", ".">>

\* what the description element's text is set to
ItemDescription(metadata, rss_html_content) ==
    LET item_description ==
            IF metadata.description # <<>> THEN metadata.description
            ELSE Prefix(rss_html_content, ExcerptLen) \o Ellipsis
    IN  IF metadata.description # <<>> THEN item_description ELSE rss_html_content

FeedItem(c, t) ==
    LET item_link == ItemLink(c.html_file_name)
    IN  Node("item",
             <<El("title", c.metadata.title),
               El("link", item_link),
               El("description", ItemDescription(c.metadata, c.rss_html)),
               El("pubDate", convert_date_to_rfc822(c.metadata.date, t)),
               El("guid", item_link)>>)

\* a mutant: hidden files pass the filter
IsMarkdownPostOrHidden(file_name) == EndsWith(file_name, <<".", "m", "d">>)

\* the filter of the walk
IsMarkdownPost(file_name) ==
    EndsWith(file_name, <<".", "m", "d">>) /\ ~StartsWith(file_name, <<".">>)

\* a mutant: the item is added before the HTML file is saved
NextPcItemFirst(p) ==
    CASE p = "walk" -> "item" [] p = "item" -> "save" [] p = "save" -> "walk"

\* the order of the statements of the loop body
NextPc(p) ==
    CASE p = "walk" -> "save" [] p = "save" -> "item" [] p = "item" -> "walk"

\* _prettify_xml and the write of rss.xml: the document, as its channel
prettify_xml(ch) == [exists |-> TRUE, channel |-> ch]

-----------------------------------------------------------------------------
(* generate_rss_and_html, one step per statement group *)

FilePath(f) == PathJoin(f.dir, f.name)

Advance(p) ==
    /\ pc' = p
    /\ idx' = IF p = "walk" THEN idx + 1 ELSE idx

Start ==
    /\ pc = "start"
    /\ channel' = ChannelHead(now, iconExists)
    /\ idx' = 1
    /\ pc' = "walk"
    /\ UNCHANGED <<fs, now, cur, htmlDir, saves, rssFile, run, prevRss, iconExists,
                   fnIn, fnOut>>

SkipFile ==
    /\ pc = "walk" /\ idx <= Len(fs)
    /\ ~IsMarkdownPost(fs[idx].name)
    /\ idx' = idx + 1
    /\ UNCHANGED <<fs, now, pc, cur, channel, htmlDir, saves, rssFile, run, prevRss,
                   iconExists, fnIn, fnOut>>

MdToHtml ==
    /\ pc = "walk" /\ idx <= Len(fs)
    /\ IsMarkdownPost(fs[idx].name)
    /\ ~fs[idx].bad
    /\ cur' = md_to_html(FilePath(fs[idx]), fs[idx].doc, now)
    /\ pc' = NextPc("walk")
    /\ UNCHANGED <<fs, now, idx, channel, htmlDir, saves, rssFile, run, prevRss,
                   iconExists, fnIn, fnOut>>

\* a mutant: the failure is caught and the post skipped
MdToHtmlSkips ==
    /\ pc = "walk" /\ idx <= Len(fs)
    /\ IsMarkdownPost(fs[idx].name)
    /\ fs[idx].bad
    /\ idx' = idx + 1
    /\ UNCHANGED <<fs, now, pc, cur, channel, htmlDir, saves, rssFile, run, prevRss,
                   iconExists, fnIn, fnOut>>

\* open() or markdown.markdown() raises: nothing catches it, the process ends
MdToHtmlRaises ==
    /\ pc = "walk" /\ idx <= Len(fs)
    /\ IsMarkdownPost(fs[idx].name)
    /\ fs[idx].bad
    /\ pc' = "aborted"
    /\ UNCHANGED <<fs, now, idx, cur, channel, htmlDir, saves, rssFile, run, prevRss,
                   iconExists, fnIn, fnOut>>

SaveHtmlFile ==
    /\ pc = "save"
    /\ htmlDir' = save_html_file(htmlDir, cur.standalone_html, cur.html_file_name)
    /\ saves' = Append(saves, [name |-> cur.html_file_name, src |-> idx])
    /\ Advance(NextPc("save"))
    /\ UNCHANGED <<fs, now, cur, channel, rssFile, run, prevRss, iconExists, fnIn, fnOut>>

AddItem ==
    /\ pc = "item"
    /\ channel' = Append(channel, FeedItem(cur, now))
    /\ Advance(NextPc("item"))
    /\ UNCHANGED <<fs, now, cur, htmlDir, saves, rssFile, run, prevRss, iconExists,
                   fnIn, fnOut>>

WriteRss ==
    /\ pc = "walk" /\ idx > Len(fs)
    /\ rssFile' = prettify_xml(channel)
    /\ pc' = "done"
    /\ UNCHANGED <<fs, now, idx, cur, channel, htmlDir, saves, run, prevRss, iconExists,
                   fnIn, fnOut>>

Next ==
    \/ Start
    \/ SkipFile
    \/ MdToHtml
    \/ MdToHtmlRaises
    \/ SaveHtmlFile
    \/ AddItem
    \/ WriteRss

-----------------------------------------------------------------------------
(* Bounds and input alphabets *)

MaxExtraKeys == 1

MaxSegs == 2

MaxFiles == 2

MaxRuns == 2

Clock0 == <<2026, 11, 2, 13>>

NoFile == [exists |-> FALSE]

NoResult == [done |-> FALSE]

\* every ordering of the members of S
RECURSIVE Perms(_)
Perms(S) ==
    IF S = {} THEN {<<>>}
    ELSE UNION {{<<x>> \o p : p \in Perms(S \ {x})} : x \in S}

\* the sequences without repetition of at most n members of S
RECURSIVE Arrangements(_, _)
Arrangements(S, n) ==
    IF n = 0 THEN {<<>>}
    ELSE {<<>>} \cup UNION {{<<x>> \o p : p \in Arrangements(S \ {x}, n - 1)} : x \in S}

\* the sequences of 1..n members of S
RECURSIVE Words(_, _)
Words(S, n) ==
    IF n = 0 THEN {}
    ELSE {<<x>> : x \in S} \cup {<<x>> \o w : x \in S, w \in Words(S, n - 1)}

IdleRun ==
    /\ fs = <<>>
    /\ now = Clock0
    /\ pc = "idle"
    /\ idx = 0
    /\ cur = NoResult
    /\ channel = <<>>
    /\ htmlDir = {}
    /\ saves = <<>>
    /\ rssFile = NoFile
    /\ run = 0
    /\ prevRss = NoFile
    /\ iconExists = FALSE

NoInput == [kind |-> "none"]

-----------------------------------------------------------------------------
(* parse_md_metadata applied to front-matter blocks *)

TitleVals == {<<"H", "i">>, <<"O", "'", "k">>}

DateVals == {<<"2", "0", "2", "4", "-", "0", "5", "-", "2", "0">>}

DescVals == {<<"S", "u", "m">>}

ExtraKeys == {<<"s", "u", "b", "t", "i", "t", "l", "e">>,
              <<"u", "p", "d", "a", "t", "e">>,
              <<"t", "a", "g", "s">>}

ExtraVal == <<"Z">>

Bodies == {<<>>, <<"B", "o", "d", "y">>}

MetaLine(e) == e.key \o <<":", " ", "\"">> \o e.val \o <<"\"">>

FrontMatter(entries, body) ==
    <<"-", "-", "-", NL>>
    \o JoinWith(<<NL>>, [k \in 1..Len(entries) |-> MetaLine(entries[k])])
    \o <<NL, "-", "-", "-", NL>> \o body

\* the orderings of the three entries and of at most MaxExtraKeys other keys
BlocksFor(t, d, ds) ==
    UNION {Perms({[key |-> KeyTitle, val |-> t], [key |-> KeyDate, val |-> d],
                  [key |-> KeyDescription, val |-> ds]}
                 \cup {[key |-> k, val |-> ExtraVal] : k \in X}) :
           X \in {Y \in SUBSET ExtraKeys : Cardinality(Y) <= MaxExtraKeys}}

MetaInputs ==
    UNION {{[kind |-> "meta", title |-> v[1], date |-> v[2], description |-> v[3],
             body |-> b, entries |-> es, md_content |-> FrontMatter(es, b)] :
               b \in Bodies, es \in BlocksFor(v[1], v[2], v[3])} :
           v \in TitleVals \X DateVals \X DescVals}

InitMeta == IdleRun /\ fnIn \in MetaInputs /\ fnOut = NoResult

ParseMdMetadata ==
    /\ fnIn.kind = "meta"
    /\ ~fnOut.done
    /\ fnOut' = [done |-> TRUE] @@ parse_md_metadata(fnIn.md_content, now)
    /\ UNCHANGED <<runVars, fnIn>>

NextMeta == ParseMdMetadata

SpecMeta == InitMeta /\ [][NextMeta]_vars

-----------------------------------------------------------------------------
(* replace_md_image_paths applied to one image reference *)

Segs == {<<"i", "m", "g">>, <<"a", ".", "p", "n", "g">>, <<"a", " ", "b">>, DotDot, <<".">>}

RelPaths == {JoinWith(<<"/">>, w) : w \in Words(Segs, MaxSegs)}

NetPaths == {sch \o <<"h", "/", "i", ".", "p", "n", "g">> : sch \in {Http, Https}}

Alts == {<<>>, <<"x">>}

Titles == {<<>>, <<" ", "\"", "t", "\"">>}

Leads == {<<>>, <<"T", " ">>}

PostPaths == {<<"p", "o", "s", "t", "/", "a", ".", "m", "d">>,
              <<"p", "o", "s", "t", "/", "s", "/", "a", ".", "m", "d">>}

Cwds == {<< <<"r">> >>, << <<"w">>, <<"r">> >>}

ImageRef(alt, path, title) ==
    <<"!", "[">> \o alt \o <<"]", "(">> \o path \o title \o <<")">>

ImgInputs ==
    {[kind |-> "img", alt |-> a, path |-> p, title |-> t, lead |-> l,
      md_file_path |-> f, cwd |-> c, md_content |-> l \o ImageRef(a, p, t)] :
        a \in Alts, p \in RelPaths \cup NetPaths, t \in Titles, l \in Leads,
        f \in PostPaths, c \in Cwds}

InitImg == IdleRun /\ fnIn \in ImgInputs /\ fnOut = NoResult

ReplaceMdImagePaths ==
    /\ fnIn.kind = "img"
    /\ ~fnOut.done
    /\ fnOut' = [done |-> TRUE,
                 text |-> replace_md_image_paths(fnIn.md_content, fnIn.md_file_path,
                                                 fnIn.cwd)]
    /\ UNCHANGED <<runVars, fnIn>>

NextImg == ReplaceMdImagePaths

SpecImg == InitImg /\ [][NextImg]_vars

-----------------------------------------------------------------------------
(* Source trees and runs *)

GoodDate == <<"2", "0", "2", "4", "-", "0", "5", "-", "2", "0">>

BadDate == <<"2", "0", "2", "4", "-", "1", "3", "-", "0", "1">>

EntryTitle == [key |-> KeyTitle, val |-> <<"H", "i">>]

EntryDesc == [key |-> KeyDescription, val |-> <<"S", "u", "m">>]

BodyText == <<"B", " ", "!", "[", "x", "]", "(", "i", ".", "p", "n", "g", ")">>

DocFull == FrontMatter(<<EntryTitle, [key |-> KeyDate, val |-> GoodDate], EntryDesc>>,
                       BodyText)

DocNoDesc == FrontMatter(<<EntryTitle, [key |-> KeyDate, val |-> GoodDate]>>, BodyText)

DocBadDate == FrontMatter(<<EntryTitle, [key |-> KeyDate, val |-> BadDate]>>, BodyText)

DocNoDate == FrontMatter(<<EntryTitle, EntryDesc>>, BodyText)

DocPlain == <<"#", " ", "T", NL>> \o BodyText

RunDocs == {DocFull, DocPlain}

RerunDocs == {DocFull, DocNoDesc, DocBadDate, DocNoDate, DocPlain}

NameA == <<"a", ".", "m", "d">>

NameB == <<"b", ".", "m", "d">>

NameTxt == <<"n", ".", "t", "x", "t">>

RunNames == {NameA, <<"a", " ", "b", ".", "m", "d">>, <<".", "h", ".", "m", "d">>, NameTxt}

SubDir == MD_DIR \o <<"s">>

\* os.walk(MD_DIR) is top-down: the files of post/ come before those of post/s
WalkOrder(w) ==
    \A i, j \in 1..Len(w) : (i < j /\ w[i].dir = SubDir) => w[j].dir = SubDir

Walks(names, dirs, n) ==
    {w \in Arrangements({[dir |-> d, name |-> nm] : d \in dirs, nm \in names}, n) :
        WalkOrder(w)}

\* the content and readability of the files the walk opens (it opens no other)
Fill(w, docs) ==
    {[k \in 1..Len(w) |->
        [dir |-> w[k].dir, name |-> w[k].name,
         doc |-> IF IsMarkdownPost(w[k].name) THEN c[k][1] ELSE <<>>,
         bad |-> IsMarkdownPost(w[k].name) /\ c[k][2]]] :
     c \in [1..Len(w) -> docs \X BOOLEAN]}

Trees(names, dirs, docs, n) == UNION {Fill(w, docs) : w \in Walks(names, dirs, n)}

StaleRss == [exists |-> TRUE, channel |-> <<>>]

Clocks == {Clock0, <<2026, 11, 2, 14>>, <<2026, 11, 3, 9>>}

Later(t, u) ==
    \/ t[3] < u[3]
    \/ t[3] = u[3] /\ t[4] < u[4]

InitRun ==
    /\ pc = "start"
    /\ idx = 0
    /\ cur = NoResult
    /\ channel = <<>>
    /\ htmlDir = {}
    /\ saves = <<>>
    /\ prevRss = rssFile
    /\ run = 1
    /\ iconExists \in BOOLEAN
    /\ fnIn = NoInput
    /\ fnOut = NoResult

Init ==
    /\ fs \in Trees(RunNames, {MD_DIR, SubDir}, RunDocs, MaxFiles)
    /\ now = Clock0
    /\ rssFile \in {NoFile, StaleRss}
    /\ InitRun

Spec == Init /\ [][Next]_vars

InitRerun ==
    /\ fs \in Trees({NameA, NameB, NameTxt}, {MD_DIR}, RerunDocs, MaxFiles)
    /\ now \in Clocks
    /\ rssFile = NoFile
    /\ InitRun

\* time passes
Tick ==
    /\ pc \in {"start", "walk"}
    /\ \E t \in Clocks : Later(now, t) /\ now' = t
    /\ UNCHANGED <<fs, pc, idx, cur, channel, htmlDir, saves, rssFile, run, prevRss,
                   iconExists, fnIn, fnOut>>

\* the generator is started again over the same tree
Rerun ==
    /\ pc = "done"
    /\ run < MaxRuns
    /\ run' = run + 1
    /\ prevRss' = rssFile
    /\ pc' = "start"
    /\ idx' = 0
    /\ cur' = NoResult
    /\ channel' = <<>>
    /\ saves' = <<>>
    /\ UNCHANGED <<fs, now, htmlDir, rssFile, iconExists, fnIn, fnOut>>

NextRerun == Next \/ Tick \/ Rerun

SpecRerun == InitRerun /\ [][NextRerun]_vars

-----------------------------------------------------------------------------
(* Claims about the pure functions *)

MetaApplied == fnIn.kind = "meta" /\ fnOut.done

\* C7: for every input that begins with a well-formed front-matter block holding
\* quoted title, date and description entries, parse_md_metadata returns exactly
\* those values, whatever other keys the block holds and in whatever order, and
\* the returned body holds none of the block.
C7_FrontMatterExact ==
    MetaApplied =>
        /\ fnOut.metadata.title = fnIn.title
        /\ fnOut.metadata.date = fnIn.date
        /\ fnOut.metadata.description = fnIn.description
        /\ fnOut.clean_content = fnIn.body

ImgApplied == fnIn.kind = "img" /\ fnOut.done

IsNetPath(p) == StartsWith(p, Http) \/ StartsWith(p, Https)

\* C8: an image reference whose path begins with a network scheme is left
\* unchanged: alt text, path and optional quoted title are those of the input.
C8_NetworkRefUnchanged ==
    (ImgApplied /\ IsNetPath(fnIn.path)) => fnOut.text = fnIn.md_content

RECURSIVE DecodeSpace(_)
\* the inverse of the percent-encoding of spaces
DecodeSpace(s) ==
    IF s = <<>> THEN <<>>
    ELSE IF StartsWith(s, <<"%", "2", "0">>) THEN <<" ">> \o DecodeSpace(From(s, 4))
    ELSE <<Head(s)>> \o DecodeSpace(Tail(s))

RefHead == fnIn.lead \o <<"!", "[">> \o fnIn.alt \o <<"]", "(">> \o RSS_LINK \o RawMain

\* the part of the rewritten URL after <RSS_LINK>/raw/main/
OutRel == SubSeq(fnOut.text, Len(RefHead) + 1, Len(fnOut.text) - 1)

\* C9: a reference with a relative path is rewritten to <RSS_LINK>/raw/main/
\* followed by a path that, read from the project root, names the file the
\* image path names when read from the post's directory, with no space left
\* in it (each one percent-encoded).
C9_RelativeRefRewritten ==
    (ImgApplied /\ ~IsNetPath(fnIn.path)) =>
        /\ StartsWith(fnOut.text, RefHead)
        /\ fnOut.text[Len(fnOut.text)] = ")"
        /\ \A k \in 1..Len(OutRel) : OutRel[k] \notin {" ", ")"}
        /\ NormAbs(fnIn.cwd, Split(DecodeSpace(OutRel), "/"))
             = NormAbs(fnIn.cwd, Split(Dirname(fnIn.md_file_path), "/")
                                   \o Split(fnIn.path, "/"))
        /\ ReplaceSpace(DecodeSpace(OutRel)) = OutRel

\* post/a.md with ![x](img/a.png) yields <RSS_LINK>/raw/main/post/img/a.png
C9_Witness ==
    /\ ImgApplied
    /\ fnIn.md_file_path = <<"p", "o", "s", "t", "/", "a", ".", "m", "d">>
    /\ fnIn.path = <<"i", "m", "g", "/", "a", ".", "p", "n", "g">>
    /\ fnIn.alt = <<"x">> /\ fnIn.lead = <<>>
    /\ fnOut.text = <<"!", "[", "x", "]", "(">> \o RSS_LINK \o RawMain
                      \o <<"p", "o", "s", "t", "/", "i", "m", "g", "/", "a", ".", "p",
                           "n", "g", ")">>

-----------------------------------------------------------------------------
(* Claims about a run *)

IsItem(e) == e.tag = "item"

ItemsOf(ch) == SelectSeq(ch, IsItem)

Field(item, tag) ==
    item.children[CHOOSE k \in 1..Len(item.children) : item.children[k].tag = tag].text

\* a discovered post: the name ends with .md and does not start with a dot
IsPostName(name) ==
    /\ Len(name) >= 3
    /\ SubSeq(name, Len(name) - 2, Len(name)) = <<".", "m", "d">>
    /\ name[1] # "."

RECURSIVE PostsUpTo(_)
\* the indices in fs of the discovered posts among the first k files, in order
PostsUpTo(k) ==
    IF k = 0 THEN <<>>
    ELSE PostsUpTo(k - 1) \o (IF IsPostName(fs[k].name) THEN <<k>> ELSE <<>>)

Posts == PostsUpTo(Len(fs))

\* the name with the Markdown extension replaced by .html
HtmlNameOf(name) == SubSeq(name, 1, Len(name) - 3) \o <<".", "h", "t", "m", "l">>

\* the URL of a file of the HTML output directory
UrlOfHtml(name) == RSS_LINK \o RawMain \o HTML_OUTPUT_DIR \o <<"/">> \o ReplaceSpace(name)

FeedItems == ItemsOf(channel)

\* C1: in a run, the guid values of the emitted feed items are pairwise
\* distinct: no two source files produce items with the same guid.
C1_GuidsDistinct ==
    \A i, j \in 1..Len(FeedItems) :
        i # j => Field(FeedItems[i], "guid") # Field(FeedItems[j], "guid")

\* C2: after a run that completes, the output directory holds one HTML file per
\* discovered post, and no save_html_file call of the run overwrote the file
\* written for another post of the run.
C2_OneHtmlPerPost ==
    pc = "done" =>
        /\ Cardinality(htmlDir) = Len(Posts)
        /\ \A i, j \in 1..Len(saves) : i # j => saves[i].name # saves[j].name

RECURSIVE TextWidth(_)
\* len(s)
TextWidth(s) == IF s = <<>> THEN 0 ELSE Width(Head(s)) + TextWidth(Tail(s))

\* C4: an item's description is the metadata description when that is not
\* empty, and otherwise a truncated excerpt of the rendered HTML of fixed
\* length, never the full rendered HTML when that is longer.
C4_DescriptionOrExcerpt ==
    \A j \in 1..Len(FeedItems) :
        LET f == fs[Posts[j]]
            r == md_to_html(FilePath(f), f.doc, now)
            d == Field(FeedItems[j], "description")
        IN  IF r.metadata.description # <<>>
            THEN d = r.metadata.description
            ELSE /\ TextWidth(d) <= ExcerptLen + Len(Ellipsis)
                 /\ StartsWith(r.rss_html, Prefix(d, ExcerptLen))

ChannelHeadTags == <<"title", "link", "description", "language", "pubDate">>

\* C5: when a run completes, the items of the feed correspond one to one, in
\* traversal order, to the discovered posts; each item's guid equals its link;
\* all items follow the channel metadata elements.
C5_ItemsFollowWalk ==
    pc = "done" =>
        LET ch == rssFile.channel
            items == ItemsOf(ch)
        IN  /\ Len(items) = Len(Posts)
            /\ \A j \in 1..Len(items) :
                  /\ Field(items[j], "link") = UrlOfHtml(HtmlNameOf(fs[Posts[j]].name))
                  /\ Field(items[j], "guid") = Field(items[j], "link")
                  /\ Field(items[j], "title")
                       = parse_md_metadata(Strip(fs[Posts[j]].doc), now).metadata.title
            /\ \A a, b \in 1..Len(ch) : (IsItem(ch[a]) /\ ~IsItem(ch[b])) => b < a
            /\ \A k \in 1..Len(ChannelHeadTags) : ch[k].tag = ChannelHeadTags[k]

\* a completed run over a tree with a post, and a hidden or non-Markdown file
C5_Witness ==
    /\ pc = "done"
    /\ Len(ItemsOf(rssFile.channel)) >= 1
    /\ Len(Posts) < Len(fs)

SomePostBad == \E k \in 1..Len(Posts) : fs[Posts[k]].bad

\* C6 as stated: a failing post aborts the run, rss.xml is neither written nor
\* modified and no partial output is left behind; only a run in which every
\* post succeeds writes output.
C6_AllOrNothing ==
    /\ pc = "aborted" => (rssFile = prevRss /\ htmlDir = {})
    /\ (pc \in {"done", "aborted"} /\ (rssFile # prevRss \/ htmlDir # {})) => ~SomePostBad

\* C6 as amended: a failing post aborts the run at that post, rss.xml is
\* neither written nor modified, and the HTML files of the posts before the
\* failing one, and only those, stay written; rss.xml is written only by a
\* run in which every post succeeds.
C6_AbortKeepsEarlierHtml ==
    /\ pc = "aborted" =>
          /\ rssFile = prevRss
          /\ fs[idx].bad
          /\ \A k \in 1..Len(Posts) : Posts[k] < idx => ~fs[Posts[k]].bad
          /\ Len(saves) = Cardinality({k \in 1..Len(Posts) : Posts[k] < idx})
          /\ \A k \in 1..Len(saves) :
                /\ saves[k].src = Posts[k]
                /\ \E h \in htmlDir : h.name = saves[k].name
    /\ rssFile # prevRss => (pc = "done" /\ ~SomePostBad)

\* a run aborted after it wrote the HTML file of an earlier post
C6_Witness == pc = "aborted" /\ saves # <<>> /\ htmlDir # {}

LinksWritten(ch) ==
    \A j \in 1..Len(ItemsOf(ch)) :
        \E k \in 1..Len(saves) :
            /\ Field(ItemsOf(ch)[j], "link") = UrlOfHtml(saves[k].name)
            /\ \E h \in htmlDir : h.name = saves[k].name

\* C10: a post's HTML file is written before its item is added, and rss.xml is
\* written only after all posts were processed; so at every point, and when
\* rss.xml is written, every item's link names an HTML file this run wrote.
C10_LinksNameWrittenFiles ==
    /\ LinksWritten(channel)
    /\ Len(FeedItems) <= Len(saves)
    /\ rssFile # prevRss =>
          /\ pc = "done" /\ idx > Len(fs)
          /\ rssFile.channel = channel

C10_Witness == pc = "done" /\ rssFile # prevRss /\ Len(ItemsOf(rssFile.channel)) >= 2

-----------------------------------------------------------------------------
(* Claims about two runs *)

SecondRunDone == run >= 2 /\ pc = "done"

\* C3 as stated: two runs over the same unchanged tree, at any two times, give
\* rss.xml documents equal in everything but the channel-level pubDate.
C3_RerunSameItems ==
    SecondRunDone =>
        /\ Len(rssFile.channel) = Len(prevRss.channel)
        /\ \A k \in 1..Len(rssFile.channel) :
              \/ rssFile.channel[k] = prevRss.channel[k]
              \/ rssFile.channel[k].tag = "pubDate" /\ prevRss.channel[k].tag = "pubDate"

\* the front matter of the post gives a date that strptime accepts
HasFrontDate(doc) ==
    LET s == Strip(doc)
    IN  /\ MetaOpens(s) # {}
        /\ KeyHits(KeyDate, MetaMatch(s).group1) # {}
        /\ StrptimeOk(SearchQuoted(KeyDate, MetaMatch(s).group1))

\* C3 as amended: the two documents are equal in everything but the channel
\* pubDate and the pubDate of the items whose post gives no date or a
\* malformed one: title, link, description and guid of every item agree, and
\* so does the pubDate of every item whose front matter gives a well-formed
\* date.
C3_RerunSameButClockDates ==
    SecondRunDone =>
        /\ Len(rssFile.channel) = Len(prevRss.channel)
        /\ \A k \in 1..Len(rssFile.channel) :
              LET a == prevRss.channel[k]
                  b == rssFile.channel[k]
              IN  /\ a.tag = b.tag
                  /\ (~IsItem(b) /\ b.tag # "pubDate") => a = b
        /\ \A j \in 1..Len(ItemsOf(rssFile.channel)) :
              LET a == ItemsOf(prevRss.channel)[j]
                  b == ItemsOf(rssFile.channel)[j]
              IN  /\ \A t \in {"title", "link", "description", "guid"} :
                        Field(a, t) = Field(b, t)
                  /\ HasFrontDate(fs[Posts[j]].doc) =>
                        Field(a, "pubDate") = Field(b, "pubDate")

\* a second run, at a later time, whose feed differs from the first in the
\* pubDate of an item
C3_Witness ==
    /\ SecondRunDone
    /\ \E j \in 1..Len(ItemsOf(rssFile.channel)) :
          /\ HasFrontDate(fs[Posts[j]].doc)
          /\ \E i \in 1..Len(ItemsOf(rssFile.channel)) :
                Field(ItemsOf(prevRss.channel)[i], "pubDate")
                   # Field(ItemsOf(rssFile.channel)[i], "pubDate")

====
